---- MODULE Spec2Model ----
(***************************************************************************)
(* Model of MyORMGraphQL (src/lib/src/index.js): the per-context argument  *)
(* customization registry (addArgument / removeArgument / changeArgument), *)
(* the synthesis of the Query / Insert / Update / Delete argument sets and *)
(* the four generated resolvers, which translate a request into calls on   *)
(* the MyORM data context (where / take / skip / include / select /        *)
(* insert / update / delete).  The data context is an external library:    *)
(* it is modelled as a recorder of the calls the resolvers make on it.     *)
(***************************************************************************)
EXTENDS Integers, Sequences, FiniteSets, TLC

VARIABLES
    schema,     \* ctx._schema: the columns of the registered table, in key order
    custom,     \* #contexts[ctxName].{query,insert,update,delete}CustomArgs
    calls,      \* number of customization calls made by the configuration callback
    built,      \* the args object captured by each synthesized operation
    req,        \* the request handed to the resolver that ran last
    db,         \* the calls that resolver made on the data context
    result,     \* what that resolver returned or threw
    contexts,   \* #contexts: display name and mutationOptions, in key order
    rootFields, \* the field names of the root objects created last
    ctx,        \* the registered data context handle (#contexts[ctxName].context)
    inflight,   \* the resolutions that run concurrently, each with its locals
    pass,       \* the handle calls of the configuration callback, with their outcome
    relationships, \* ctx._relationships: the relationship tree of the registered table
    objectTypes,   \* #objectTypes: the record types made so far, by generated name
    objects,    \* every record type object constructed, in construction order
    recordType  \* the record type the Query and the Insert operation return a list of

vars == <<schema, custom, calls, built, req, db, result, contexts, rootFields, ctx, inflight,
          pass, relationships, objectTypes, objects, recordType>>

----------------------------------------------------------------------------
(* Bounds and input sets *)

\* Customization calls made inside one configuration callback.
MaxCalls == 1

\* Handle calls one configuration callback makes when it makes several.
MaxPassCalls == 2

\* JavaScript's undefined, where a string is expected.
Undefined == "<undefined>"

Kinds == {"Query", "Insert", "Update", "Delete"}

\* A GraphQL type: a scalar, possibly wrapped in GraphQLNonNull.
NoType == [scalar |-> Undefined, nonNull |-> FALSE]
ThrownType == [scalar |-> "<throw>", nonNull |-> FALSE]
GraphQLInt == [scalar |-> "Int", nonNull |-> FALSE]
GraphQLString == [scalar |-> "String", nonNull |-> FALSE]

\* The four shapes of column the metadata provider reports.
ColumnFlags ==
    { [isNullable |-> FALSE, isIdentity |-> FALSE, isVirtual |-> FALSE],
      [isNullable |-> TRUE,  isIdentity |-> FALSE, isVirtual |-> FALSE],
      [isNullable |-> FALSE, isIdentity |-> TRUE,  isVirtual |-> FALSE],
      [isNullable |-> FALSE, isIdentity |-> FALSE, isVirtual |-> TRUE] }

Column(n, d, f) ==
    [name |-> n, datatype |-> d, isNullable |-> f.isNullable,
     isIdentity |-> f.isIdentity, isVirtual |-> f.isVirtual]

\* Every table with the columns Id (int) and Name (string).
Tables ==
    { <<Column("Id", "int", f1), Column("Name", "string", f2)>> :
        f1 \in ColumnFlags, f2 \in ColumnFlags }

\* Names and values a configuration callback passes.
AddNames == {"Extra", "Name"}
NewNames == {"Alias", "Name"}
Handlers == {"h1", "h2"}
Descriptions == {"d"}

\* Values of skip and take a request may carry (0 is falsy in JavaScript).
PageValues == {0, 2}

----------------------------------------------------------------------------
(* Helpers over JavaScript objects, kept as sequences of entries in key order *)

Keys(entries) == [i \in 1..Len(entries) |-> entries[i].name]

KeySet(entries) == {entries[i].name : i \in 1..Len(entries)}

Has(entries, k) == k \in KeySet(entries)

Get(entries, k) == entries[CHOOSE i \in 1..Len(entries) : entries[i].name = k]

\* obj[k] = e: an existing key keeps its position, a new key is appended.
Put(entries, e) ==
    IF Has(entries, e.name)
    THEN [i \in 1..Len(entries) |-> IF entries[i].name = e.name THEN e ELSE entries[i]]
    ELSE Append(entries, e)

RECURSIVE PutAll(_, _)
PutAll(entries, more) ==
    IF more = <<>> THEN entries ELSE PutAll(Put(entries, Head(more)), Tail(more))

\* String.prototype.startsWith
StartsWith(s, p) == Len(s) >= Len(p) /\ SubSeq(s, 1, Len(p)) = p

\* String.prototype.replace(p, ""): the first occurrence of p is removed.
Occurs(s, p, i) == i + Len(p) - 1 <= Len(s) /\ SubSeq(s, i, i + Len(p) - 1) = p

Replace(s, p) ==
    IF \E i \in 1..Len(s) : Occurs(s, p, i)
    THEN LET i == CHOOSE j \in 1..Len(s) :
                      Occurs(s, p, j) /\ \A h \in 1..(j - 1) : ~Occurs(s, p, h)
         IN SubSeq(s, 1, i - 1) \o SubSeq(s, i + Len(p), Len(s))
    ELSE s

----------------------------------------------------------------------------
(* Type mapping *)

\* A faulty getGraphQLType: a datatype it does not know is taken as a string.
getGraphQLTypeLenient(name, type, nullable) ==
    LET gqlType == CASE type = "int" -> "Int"
                     [] type = "float" -> "Float"
                     [] type = "boolean" -> "Boolean"
                     [] OTHER -> "String"
    IN [scalar |-> gqlType, nonNull |-> ~nullable]

getGraphQLType(name, type, nullable) ==
    LET gqlType == CASE type = "string" -> "String"
                     [] type = "int" -> "Int"
                     [] type = "float" -> "Float"
                     [] type = "boolean" -> "Boolean"
                     [] type = "date" -> "String"
                     [] OTHER -> "<throw>"
    IN IF gqlType = "<throw>" THEN ThrownType
       ELSE [scalar |-> gqlType, nonNull |-> ~nullable]

\* $schema[k]?.datatype
DatatypeOf(sch, k) == IF Has(sch, k) THEN Get(sch, k).datatype ELSE Undefined

----------------------------------------------------------------------------
(* Customization registry *)

\* The customization sets addContext creates.  ignoredArgs is an array the
\* program only pushes to and only reads through includes(): it is kept as
\* the set of its elements.
NoCustomArgs == [customArgs |-> <<>>, ignoredArgs |-> {}]

\* The handle functions addContext gives the callback for each kind.
Handles(kind) ==
    IF kind = "Insert" THEN {"removeArgument", "changeArgument"}
    ELSE {"addArgument", "removeArgument", "changeArgument"}

addArgument(argDetails, name, description, graphqlArgType, callback) ==
    [argDetails EXCEPT !.customArgs =
        Put(@, [name |-> name, type |-> graphqlArgType, handler |-> callback,
                description |-> description])]

\* The callback dereferences the properties in p on the proxy.
removeArgument(argDetails, p) ==
    [argDetails EXCEPT !.ignoredArgs = @ \cup p]

\* The callback dereferences property p and chains the calls recorded in
\* state: a field of state is Undefined (NoType) when its call was not made.
changeArgument(argDetails, p, state) ==
    LET name == IF state.namedAs # Undefined THEN state.namedAs ELSE p
        oldName == IF state.namedAs # Undefined THEN p ELSE Undefined
        entry == [name |-> name, type |-> state.typedAs, handler |-> state.definedAs,
                  description |-> state.describedAs]
    IN [customArgs |-> Put(argDetails.customArgs, entry),
        ignoredArgs |-> IF name # oldName
                        THEN argDetails.ignoredArgs \cup {oldName}
                        ELSE argDetails.ignoredArgs]

----------------------------------------------------------------------------
(* Synthesis of the argument sets *)

skipArg == [name |-> "skip", type |-> GraphQLInt, description |-> "skip"]
takeArg == [name |-> "take", type |-> GraphQLInt, description |-> "take"]

QueryArgs(sch, cd) ==
    LET cols == SelectSeq(sch, LAMBDA c : c.name \notin cd.ignoredArgs)
        user == SelectSeq(cd.customArgs, LAMBDA a : a.name \notin cd.ignoredArgs)
    IN PutAll(PutAll(<<skipArg, takeArg>>,
          [i \in 1..Len(cols) |->
              LET c == cols[i]
              IN [name |-> c.name,
               type |-> getGraphQLType(c.name, c.datatype, TRUE),
               description |-> Undefined]]),
          [i \in 1..Len(user) |->
              LET a == user[i]
              IN [name |-> a.name,
               type |-> IF a.type # NoType THEN a.type
                        ELSE getGraphQLType(a.name, DatatypeOf(sch, a.name), TRUE),
               description |-> a.description]])

UserArgs(cd) ==
    [i \in 1..Len(cd.customArgs) |->
              LET a == cd.customArgs[i]
              IN [name |-> a.name, type |-> a.type, description |-> a.description]]

\* A faulty InsertArgs: every column argument is optional.
InsertArgsOptional(sch, cd) ==
    LET cols == SelectSeq(sch, LAMBDA c :
                    c.name \notin cd.ignoredArgs /\ ~c.isIdentity /\ ~c.isVirtual)
    IN PutAll(PutAll(<<>>, UserArgs(cd)),
          [i \in 1..Len(cols) |->
              LET c == cols[i]
              IN [name |-> c.name,
               type |-> getGraphQLType(c.name, c.datatype, TRUE),
               description |-> "initial value"]])

InsertArgs(sch, cd) ==
    LET cols == SelectSeq(sch, LAMBDA c :
                    c.name \notin cd.ignoredArgs /\ ~c.isIdentity /\ ~c.isVirtual)
    IN PutAll(PutAll(<<>>, UserArgs(cd)),
          [i \in 1..Len(cols) |->
              LET c == cols[i]
              IN [name |-> c.name,
               type |-> getGraphQLType(c.name, c.datatype, c.isNullable \/ c.isIdentity),
               description |-> IF c.isNullable \/ c.isIdentity
                               THEN "initial value" ELSE "initial value (required)"]])

\* A faulty UpdateArgs: no filterBy_ argument for identity and virtual columns.
UpdateArgsSettableOnly(sch, cd) ==
    LET cols == SelectSeq(sch, LAMBDA c :
                    c.name \notin cd.ignoredArgs /\ ~c.isIdentity /\ ~c.isVirtual)
    IN PutAll(PutAll(PutAll(<<>>, UserArgs(cd)),
          [i \in 1..Len(cols) |->
              LET c == cols[i]
              IN [name |-> "filterBy_" \o c.name,
               type |-> getGraphQLType(c.name, c.datatype, TRUE),
               description |-> "check equality"]]),
          [i \in 1..Len(cols) |->
              LET c == cols[i]
              IN [name |-> c.name,
               type |-> getGraphQLType(c.name, c.datatype, TRUE),
               description |-> "set the column"]])

UpdateArgs(sch, cd) ==
    LET filters == SelectSeq(sch, LAMBDA c : c.name \notin cd.ignoredArgs)
        cols == SelectSeq(sch, LAMBDA c :
                    c.name \notin cd.ignoredArgs /\ ~c.isIdentity /\ ~c.isVirtual)
    IN PutAll(PutAll(PutAll(<<>>, UserArgs(cd)),
          [i \in 1..Len(filters) |->
              LET c == filters[i]
              IN [name |-> "filterBy_" \o c.name,
               type |-> getGraphQLType(c.name, c.datatype, TRUE),
               description |-> "check equality"]]),
          [i \in 1..Len(cols) |->
              LET c == cols[i]
              IN [name |-> c.name,
               type |-> getGraphQLType(c.name, c.datatype, TRUE),
               description |-> "set the column"]])

DeleteArgs(sch, cd) ==
    LET cols == SelectSeq(sch, LAMBDA c : c.name \notin cd.ignoredArgs)
    IN PutAll(PutAll(<<>>, UserArgs(cd)),
          [i \in 1..Len(cols) |->
              LET c == cols[i]
              IN [name |-> c.name,
               type |-> getGraphQLType(c.name, c.datatype, TRUE),
               description |-> "delete by equality"]])

Synthesize(kind, sch, cd) ==
    CASE kind = "Query" -> QueryArgs(sch, cd)
      [] kind = "Insert" -> InsertArgs(sch, cd)
      [] kind = "Update" -> UpdateArgs(sch, cd)
      [] kind = "Delete" -> DeleteArgs(sch, cd)

\* getGraphQLType threw while the args object was being built.
Throws(args) == \E i \in 1..Len(args) : args[i].type = ThrownType

\* graphql-js refuses to execute a schema that has an argument without a type.
Typed(args) == \A i \in 1..Len(args) : args[i].type # NoType

----------------------------------------------------------------------------
(* The selection tree of a request (resolvers.fieldNodes[0].selectionSet) *)

Leaf(n) == [name |-> n, selectionSet |-> <<>>]
Node(n, sels) == [name |-> n, selectionSet |-> sels]

\* A faulty selectFields: it returns the names of the leaves, not their paths
\* (every leaf is read from the root proxy).
RECURSIVE selectFieldsFromRoot(_, _)
selectFieldsFromRoot(selections, m) ==
    IF selections = <<>> THEN <<>>
    ELSE LET s == Head(selections)
         IN (IF s.selectionSet # <<>>
             THEN selectFieldsFromRoot(s.selectionSet, m)
             ELSE <<Append(m, s.name)>>)
            \o selectFieldsFromRoot(Tail(selections), m)

\* (selections, m) => selections.flatMap(...): m is the path of the proxy.
RECURSIVE selectFields(_, _)
selectFields(selections, m) ==
    IF selections = <<>> THEN <<>>
    ELSE LET s == Head(selections)
         IN (IF s.selectionSet # <<>>
             THEN selectFields(s.selectionSet, Append(m, s.name))
             ELSE <<Append(m, s.name)>>)
            \o selectFields(Tail(selections), m)

\* A faulty selectIncludes: it includes one level and does not recurse.
selectIncludesOneLevel(selections, m) ==
    LET nested == SelectSeq(selections, LAMBDA s : s.selectionSet # <<>>)
    IN IF nested = <<>> THEN <<>> ELSE <<nested[Len(nested)].name>>

\* The value selectIncludes returns: the thenInclude chain of the last
\* selection that has a selection set, as the names along that chain.
RECURSIVE selectIncludes(_, _)
selectIncludes(selections, m) ==
    LET nested == SelectSeq(selections, LAMBDA s : s.selectionSet # <<>>)
    IN IF nested = <<>> THEN <<>>
       ELSE LET s == nested[Len(nested)]
            IN <<s.name>> \o selectIncludes(s.selectionSet, Append(m, s.name))

\* The relationship properties selectIncludes dereferences on the proxies
\* (m[s.name.value], then the same inside each thenInclude callback).
RECURSIVE includeDerefs(_, _)
includeDerefs(selections, m) ==
    IF selections = <<>> THEN {}
    ELSE LET s == Head(selections)
         IN (IF s.selectionSet # <<>>
             THEN {Append(m, s.name)} \cup includeDerefs(s.selectionSet, Append(m, s.name))
             ELSE {})
            \cup includeDerefs(Tail(selections), m)

----------------------------------------------------------------------------
(* The data context, as the record of the calls one resolver makes on it *)

NoCalls ==
    [ops |-> <<>>,          \* the methods called, in call order
     where |-> <<>>,        \* the conditions added by where(), in call order
     take |-> {},           \* the argument of take(), if called
     skip |-> {},           \* the argument of skip(), if called
     derefs |-> {},         \* relationship paths dereferenced inside include()
     included |-> <<>>,     \* what the include() callback returned
     select |-> <<>>,       \* the column paths the select() callback returned
     values |-> <<>>,       \* the record given to insert() or update()
     rows |-> {}]           \* the number update() or delete() resolved to

\* What the data context's write does: it resolves to a number of rows, or rejects.
RowCounts == {1, 3}
Outcomes ==
    {[rejected |-> TRUE, rows |-> 0]} \cup {[rejected |-> FALSE, rows |-> n] : n \in RowCounts}

Returned(rows) == [status |-> "returned", error |-> Undefined, numRowsAffected |-> rows]
Threw(e) == [status |-> "threw", error |-> e, numRowsAffected |-> {}]
NoResult == [status |-> "none", error |-> Undefined, numRowsAffected |-> {}]

Repeat(op, n) == [i \in 1..n |-> op]

Min(S) == CHOOSE x \in S : \A y \in S : x <= y

ValueOf(args, k) == {args[i].value : i \in {j \in 1..Len(args) : args[j].name = k}}

\* The for-loop over the filter arguments: one where() per argument, with the
\* handler of customArgs when the key is in customArgs and m[columns[i]].eq(value)
\* otherwise.  Calling a handler that is undefined throws a TypeError inside
\* where(), which ends the resolver.
Conditions(args, customArgs, columns) ==
    LET bad == {i \in 1..Len(args) :
                   /\ Has(customArgs, args[i].name)
                   /\ Get(customArgs, args[i].name).handler = Undefined}
        n == IF bad = {} THEN Len(args) ELSE Min(bad) - 1
    IN [thrown |-> bad # {},
        ops |-> Repeat("where", IF bad = {} THEN n ELSE n + 1),
        where |-> [i \in 1..n |->
                     IF Has(customArgs, args[i].name)
                     THEN [by |-> "handler",
                           on |-> Get(customArgs, args[i].name).handler,
                           value |-> args[i].value]
                     ELSE [by |-> "eq", on |-> columns[i],
                           value |-> args[i].value]]]

Truthy(v) == \E x \in v : x # 0

\* resolve of #getQueryObjectTypeConfigForContext
QueryResolver(args, selections, customArgs) ==
    LET skip == ValueOf(args, "skip")
        take == ValueOf(args, "take")
        dynamicArgs == SelectSeq(args, LAMBDA a : a.name \notin {"skip", "take"})
        c == Conditions(dynamicArgs, customArgs, Keys(dynamicArgs))
    IN IF c.thrown
       THEN [db |-> [NoCalls EXCEPT !.ops = c.ops, !.where = c.where],
             result |-> Threw("TypeError")]
       ELSE [db |-> [ops |-> c.ops
                             \o (IF Truthy(take) THEN <<"take">> ELSE <<>>)
                             \o (IF Truthy(take) /\ Truthy(skip) THEN <<"skip">> ELSE <<>>)
                             \o <<"include", "select">>,
                     where |-> c.where,
                     take |-> IF Truthy(take) THEN take ELSE {},
                     skip |-> IF Truthy(take) /\ Truthy(skip) THEN skip ELSE {},
                     derefs |-> includeDerefs(selections, <<>>),
                     included |-> selectIncludes(selections, <<>>),
                     select |-> selectFields(selections, <<>>),
                     values |-> <<>>,
                     rows |-> {}],
             result |-> Returned({})]

\* A faulty Write: a write the data context rejects is tried once more.
WriteRetried(before, op, values, outcome, wrap) ==
    [db |-> [before EXCEPT !.ops = IF outcome.rejected THEN @ \o <<op, op>> ELSE Append(@, op),
                           !.values = values,
                           !.rows = IF outcome.rejected \/ ~wrap THEN {} ELSE {outcome.rows}],
     result |-> IF outcome.rejected THEN Threw("rejected")
                ELSE IF wrap THEN Returned({outcome.rows}) ELSE Returned({})]

\* The write at the end of a mutation resolver.
Write(before, op, values, outcome, wrap) ==
    [db |-> [before EXCEPT !.ops = Append(@, op), !.values = values,
                           !.rows = IF outcome.rejected \/ ~wrap THEN {} ELSE {outcome.rows}],
     result |-> IF outcome.rejected THEN Threw("rejected")
                ELSE IF wrap THEN Returned({outcome.rows}) ELSE Returned({})]

\* resolve of #getInsertObjectTypeConfigForContext
InsertResolver(args, outcome) == Write(NoCalls, "insert", args, outcome, FALSE)

\* resolve of #getUpdateObjectTypeConfigForContext
UpdateResolver(args, customArgs, outcome) ==
    LET filterArgs == SelectSeq(args, LAMBDA a :
                          StartsWith(a.name, "filterBy_") \/ Has(customArgs, a.name))
        updateArgs == SelectSeq(args, LAMBDA a : ~StartsWith(a.name, "filterBy_"))
        columns == [i \in 1..Len(filterArgs) |-> Replace(filterArgs[i].name, "filterBy_")]
        c == Conditions(filterArgs, customArgs, columns)
        filtered == [NoCalls EXCEPT !.ops = c.ops, !.where = c.where]
    IN IF c.thrown THEN [db |-> filtered, result |-> Threw("TypeError")]
       ELSE Write(filtered, "update", updateArgs, outcome, TRUE)

\* resolve of #getDeleteObjectTypeConfigForContext
DeleteResolver(args, customArgs, outcome) ==
    LET columns == [i \in 1..Len(args) |-> Replace(args[i].name, "filterBy_")]
        c == Conditions(args, customArgs, columns)
        filtered == [NoCalls EXCEPT !.ops = c.ops, !.where = c.where]
    IN IF c.thrown THEN [db |-> filtered, result |-> Threw("TypeError")]
       ELSE Write(filtered, "delete", <<>>, outcome, TRUE)

----------------------------------------------------------------------------
(* Requests *)

\* The selection trees requests carry.  The registered table has the
\* relationships UserRoles (to many; RoleId, Role) with Role (to one; Title)
\* under it, and Profile (to one; Bio).
Selections ==
    { <<Leaf("Id")>>,
      <<Leaf("Id"), Leaf("Name")>>,
      <<Leaf("Name"), Node("Profile", <<Leaf("Bio")>>)>>,
      <<Leaf("Id"), Node("UserRoles", <<Leaf("RoleId"), Node("Role", <<Leaf("Title")>>)>>)>>,
      <<Node("UserRoles", <<Node("Role", <<Leaf("Title")>>)>>), Leaf("Name")>>,
      <<Node("UserRoles", <<Leaf("RoleId")>>), Leaf("Id"), Node("Profile", <<Leaf("Bio")>>)>> }

\* graphql-js hands the resolver the supplied arguments in the order of the
\* operation's args object.  The supplied arguments are those at the indexes
\* S; skip and take carry the values of page, and every other argument a value
\* of its own (its index).
Pages == [{"skip", "take"} -> PageValues]

Supplied(args, S, page) ==
    LET all == [i \in 1..Len(args) |->
                  [name |-> args[i].name, at |-> i,
                   value |-> IF args[i].name \in {"skip", "take"}
                             THEN page[args[i].name] ELSE i]]
        kept == SelectSeq(all, LAMBDA a : a.at \in S)
    IN [i \in 1..Len(kept) |-> [name |-> kept[i].name, value |-> kept[i].value]]

NoRequest == [kind |-> "none", args |-> <<>>, selections |-> <<>>]
NotBuilt == [status |-> "none", args |-> <<>>]

----------------------------------------------------------------------------
(* The state machine *)

\* The table of the README: User(Id identity, Name required).
UserTable ==
    <<Column("Id", "int", [isNullable |-> FALSE, isIdentity |-> TRUE, isVirtual |-> FALSE]),
      Column("Name", "string", [isNullable |-> FALSE, isIdentity |-> FALSE, isVirtual |-> FALSE])>>

\* A relationship of ctx._relationships: its key, "1:n" or "1:1", the table it
\* leads to, the columns of that table and the relationships under it.
Relationship(key, type, table, columns, rels) ==
    [name |-> key, type |-> type, table |-> table, schema |-> columns,
     relationships |-> rels]

Required == [isNullable |-> FALSE, isIdentity |-> FALSE, isVirtual |-> FALSE]

\* The relationships the selection trees of the requests go through: as in
\* the README a user has many UserRoles, each with one Role; and one Profile.
UserRelationships ==
    <<Relationship("UserRoles", "1:n", "UserRoleXref", <<Column("RoleId", "int", Required)>>,
          <<Relationship("Role", "1:1", "Role", <<Column("Title", "string", Required)>>, <<>>)>>),
      Relationship("Profile", "1:1", "Profile", <<Column("Bio", "string", Required)>>, <<>>)>>

\* The display name of the context whose operations the model follows.
TableName == "User"

\* mutationOptions of addContext.
DefaultOptions ==
    [disableInserts |-> FALSE, disableUpdates |-> FALSE, disableDeletes |-> FALSE]

MutationOptions ==
    [disableInserts : BOOLEAN, disableUpdates : BOOLEAN, disableDeletes : BOOLEAN]

NoRoot == [status |-> "none", fields |-> <<>>]

\* No resolution is in flight.
Procs == {"r1", "r2"}
NoOutcome == [rejected |-> FALSE, rows |-> 0]
NotRunning == [kind |-> "none", args |-> <<>>, selections |-> <<>>, outcome |-> NoOutcome,
               pc |-> 0, resolveCtx |-> NoCalls, status |-> "none"]

Start ==
    /\ custom = [k \in Kinds |-> NoCustomArgs]
    /\ calls = 0
    /\ built = [k \in Kinds |-> NotBuilt]
    /\ req = NoRequest
    /\ db = NoCalls
    /\ result = NoResult
    /\ contexts = <<[name |-> TableName, mutationOptions |-> DefaultOptions]>>
    /\ rootFields = [Query |-> NoRoot, Mutation |-> NoRoot]
    /\ ctx = NoCalls
    /\ inflight = [p \in Procs |-> NotRunning]
    /\ pass = <<>>
    /\ objectTypes = <<>>
    /\ objects = <<>>
    /\ recordType = [Query |-> 0, Insert |-> 0]

\* The configuration callback runs inside addContext, before any root object
\* is created.
Configuring ==
    /\ calls < MaxCalls
    /\ \A k \in Kinds : built[k] = NotBuilt
    /\ rootFields = [Query |-> NoRoot, Mutation |-> NoRoot]

\* The properties of the proxy a callback of that kind refers to.
RefNames(kind) ==
    KeySet(schema) \cup
    (IF kind = "Update" THEN {"filterBy_" \o n : n \in KeySet(schema)} ELSE {})

AddArgumentCall(kinds) ==
    /\ Configuring
    /\ \E kind \in kinds, name \in AddNames, description \in Descriptions,
          callback \in {"h1"} :
          /\ "addArgument" \in Handles(kind)
          /\ custom' = [custom EXCEPT ![kind] =
                            addArgument(@, name, description, GraphQLString, callback)]
    /\ calls' = calls + 1
    /\ UNCHANGED <<schema, built, req, db, result, contexts, rootFields, ctx, inflight,
                   pass, relationships, objectTypes, objects, recordType>>

RemoveArgumentCall(kinds) ==
    /\ Configuring
    /\ \E kind \in kinds :
          \E p \in (SUBSET RefNames(kind)) \ {{}} :
              custom' = [custom EXCEPT ![kind] = removeArgument(@, p)]
    /\ calls' = calls + 1
    /\ UNCHANGED <<schema, built, req, db, result, contexts, rootFields, ctx, inflight,
                   pass, relationships, objectTypes, objects, recordType>>

ChainStates ==
    [namedAs : NewNames \cup {Undefined}, definedAs : {"h2", Undefined},
     describedAs : Descriptions \cup {Undefined}, typedAs : {GraphQLString, NoType}]

ChangeArgumentCall(kinds) ==
    /\ Configuring
    /\ \E kind \in kinds :
          \E p \in RefNames(kind), state \in ChainStates :
              custom' = [custom EXCEPT ![kind] = changeArgument(@, p, state)]
    /\ calls' = calls + 1
    /\ UNCHANGED <<schema, built, req, db, result, contexts, rootFields, ctx, inflight,
                   pass, relationships, objectTypes, objects, recordType>>

\* The fields of the record type of an operation: their types are computed
\* before the arguments are.
Fields(kind, sch) ==
    CASE kind = "Query" ->
            [i \in 1..Len(sch) |->
                [name |-> sch[i].name,
                 type |-> getGraphQLType(sch[i].name, sch[i].datatype,
                                         sch[i].isNullable \/ sch[i].isIdentity)]]
      [] kind = "Insert" ->
            [i \in 1..Len(sch) |->
                [name |-> sch[i].name,
                 type |-> getGraphQLType(sch[i].name, sch[i].datatype, sch[i].isNullable)]]
      [] OTHER -> <<>>

BuildThrew == [status |-> "threw", args |-> <<>>]
Disabled == [status |-> "disabled", args |-> <<>>]

\* A faulty Build: a kind that was synthesized before is synthesized again
\* without the customization sets.
BuildForgetful(kind) ==
    LET cd == IF built[kind] = NotBuilt THEN custom[kind] ELSE NoCustomArgs
        args == Synthesize(kind, schema, cd)
    IN IF Throws(Fields(kind, schema)) \/ Throws(args) THEN BuildThrew
       ELSE [status |-> "ok", args |-> args]

Build(kind) ==
    LET args == Synthesize(kind, schema, custom[kind])
    IN IF Throws(Fields(kind, schema)) \/ Throws(args) THEN BuildThrew
       ELSE [status |-> "ok", args |-> args]

\* pluralize's singular, on the display names used here: a final "s" is dropped.
singular(name) ==
    IF Len(name) > 1 /\ SubSeq(name, Len(name), Len(name)) = "s"
    THEN SubSeq(name, 1, Len(name) - 1)
    ELSE name

\* Record types.  A field of a record type is a column (a scalar) or a
\* relationship: ref is the place in objects of the record type it refers to,
\* list says whether that type is wrapped in GraphQLList.
ColumnField(name, type) ==
    [name |-> name, scalar |-> type.scalar, nonNull |-> type.nonNull,
     ref |-> 0, list |-> FALSE]

RelationshipField(name, ref, list) ==
    [name |-> name, scalar |-> "", nonNull |-> FALSE, ref |-> ref, list |-> list]

ColumnFields(kind, sch) ==
    [i \in 1..Len(sch) |-> ColumnField(Fields(kind, sch)[i].name, Fields(kind, sch)[i].type)]

\* A faulty Memoized: the type is constructed whether or not the name is known.
MemoizedNever(name, fields, memo, heap) ==
    [ref |-> Len(heap) + 1,
     objectTypes |-> Put(memo, [name |-> name, ref |-> Len(heap) + 1]),
     objects |-> Append(heap, [name |-> name, fields |-> fields])]

\* if(name in objectTypes) type = objectTypes[name];
\* else type = objectTypes[name] = new GraphQLObjectType({ name, fields: () => fields })
Memoized(name, fields, memo, heap) ==
    IF Has(memo, name)
    THEN [ref |-> Get(memo, name).ref, objectTypes |-> memo, objects |-> heap]
    ELSE [ref |-> Len(heap) + 1,
          objectTypes |-> Append(memo, [name |-> name, ref |-> Len(heap) + 1]),
          objects |-> Append(heap, [name |-> name, fields |-> fields])]

\* The name rDefine gives the record type of a relationship.
GeneratedName(key, list) ==
    singular(key) \o "Record" \o (IF list THEN "Array" ELSE "")

\* rDefine(relationships, fields, table, objectTypes): for each relationship,
\* in key order, the fields of its columns, then the relationships under it,
\* then its record type (made or reused), then its field in fields.  An
\* exception of getGraphQLType ends it; what it put in objectTypes stays.
RECURSIVE rDefine(_, _, _, _, _)
rDefine(rels, fields, table, memo, heap) ==
    IF rels = <<>>
    THEN [fields |-> fields, objectTypes |-> memo, objects |-> heap, thrown |-> FALSE]
    ELSE LET r == Head(rels)
             includedFields ==
                 [i \in 1..Len(r.schema) |->
                     ColumnField(r.schema[i].name,
                                 getGraphQLType(r.name, r.schema[i].datatype,
                                                r.schema[i].isNullable))]
             inner == rDefine(r.relationships, includedFields, r.name, memo, heap)
             t == Memoized(GeneratedName(r.name, r.type = "1:n"), inner.fields,
                           inner.objectTypes, inner.objects)
         IN IF \E i \in 1..Len(includedFields) : includedFields[i].scalar = ThrownType.scalar
            THEN [fields |-> fields, objectTypes |-> memo, objects |-> heap, thrown |-> TRUE]
            ELSE IF inner.thrown
            THEN [fields |-> fields, objectTypes |-> inner.objectTypes,
                  objects |-> inner.objects, thrown |-> TRUE]
            ELSE rDefine(Tail(rels),
                         Put(fields, RelationshipField(r.name, t.ref, r.type = "1:n")),
                         table, t.objectTypes, t.objects)

\* The record type of the Query operation of the followed context: column
\* fields, rDefine, then the type named `${alias}Records`, made or reused.
QueryRecordType(sch, rels, alias, memo, heap) ==
    LET r == rDefine(rels, ColumnFields("Query", sch), alias, memo, heap)
        t == Memoized(alias \o "Records", r.fields, r.objectTypes, r.objects)
    IN IF Throws(Fields("Query", sch))
       THEN [ref |-> 0, objectTypes |-> memo, objects |-> heap, thrown |-> TRUE]
       ELSE IF r.thrown
       THEN [ref |-> 0, objectTypes |-> r.objectTypes, objects |-> r.objects, thrown |-> TRUE]
       ELSE [ref |-> t.ref, objectTypes |-> t.objectTypes, objects |-> t.objects,
             thrown |-> FALSE]

\* The record type of the Insert operation: column fields, then the type
\* named `${alias}Records`, made or reused.
InsertRecordType(sch, alias, memo, heap) ==
    LET t == Memoized(alias \o "Records", ColumnFields("Insert", sch), memo, heap)
    IN IF Throws(Fields("Insert", sch))
       THEN [ref |-> 0, objectTypes |-> memo, objects |-> heap, thrown |-> TRUE]
       ELSE [ref |-> t.ref, objectTypes |-> t.objectTypes, objects |-> t.objects,
             thrown |-> FALSE]

\* rootFields of #getObjectTypeConfig: one key per context.
QueryRootFields(registered) == Keys(registered)

\* rootFields of #getMutationObjectTypeConfig: a key that is written twice
\* keeps its first position.
RECURSIVE MutationRootFields(_)
MutationRootFields(registered) ==
    IF registered = <<>> THEN <<>>
    ELSE LET c == registered[Len(registered)]
             o == c.mutationOptions
             own == (IF o.disableInserts THEN <<>>
                     ELSE <<[name |-> "insert" \o singular(c.name)]>>)
                    \o (IF o.disableUpdates THEN <<>>
                        ELSE <<[name |-> "update" \o singular(c.name)]>>)
                    \o (IF o.disableDeletes THEN <<>>
                        ELSE <<[name |-> "delete" \o singular(c.name)]>>)
         IN PutAll(MutationRootFields(SubSeq(registered, 1, Len(registered) - 1)), own)

\* Whether mutationOptions of the followed context disable an operation kind.
DisabledKind(kind) ==
    LET o == Get(contexts, TableName).mutationOptions
    IN CASE kind = "Insert" -> o.disableInserts
         [] kind = "Update" -> o.disableUpdates
         [] kind = "Delete" -> o.disableDeletes
         [] OTHER -> FALSE

CreateRootQueryObject ==
    \E t \in {QueryRecordType(schema, relationships, TableName, objectTypes, objects)},
       b \in {Build("Query")} :
    LET thrown == t.thrown \/ b = BuildThrew
    IN
    /\ built' = [built EXCEPT !["Query"] = IF thrown THEN BuildThrew ELSE b]
    /\ rootFields' = [rootFields EXCEPT !["Query"] =
                         IF thrown THEN [status |-> "threw", fields |-> <<>>]
                         ELSE [status |-> "ok", fields |-> QueryRootFields(contexts)]]
    /\ objectTypes' = t.objectTypes
    /\ objects' = t.objects
    /\ recordType' = [recordType EXCEPT !["Query"] = IF thrown THEN 0 ELSE t.ref]
    /\ UNCHANGED <<schema, custom, calls, req, db, result, contexts, ctx, inflight,
                   pass, relationships>>

\* An exception of one operation ends the whole call: no root object is made.
CreateRootMutationObject ==
    LET enabled == {k \in Kinds \ {"Query"} : ~DisabledKind(k)}
        thrown == \E k \in enabled : Build(k) = BuildThrew
        t == IF "Insert" \in enabled
             THEN InsertRecordType(schema, TableName, objectTypes, objects)
             ELSE [ref |-> 0, objectTypes |-> objectTypes, objects |-> objects,
                   thrown |-> FALSE]
    IN /\ objectTypes' = t.objectTypes
       /\ objects' = t.objects
       /\ recordType' = [recordType EXCEPT !["Insert"] = IF thrown THEN 0 ELSE t.ref]
       /\ built' = [k \in Kinds |->
                       IF k = "Query" THEN built[k]
                       ELSE IF k \notin enabled THEN Disabled
                       ELSE IF thrown THEN BuildThrew
                       ELSE Build(k)]
       /\ rootFields' = [rootFields EXCEPT !["Mutation"] =
                            IF thrown THEN [status |-> "threw", fields |-> <<>>]
                            ELSE [status |-> "ok",
                                  fields |-> Keys(MutationRootFields(contexts))]]
       /\ UNCHANGED <<schema, custom, calls, req, db, result, contexts, ctx, inflight,
                      pass, relationships>>

\* graphql-js runs a resolver of a root object only when every argument of
\* that root object has a type.
Executable(kind) ==
    /\ built[kind].status = "ok"
    /\ IF kind = "Query" THEN Typed(built[kind].args)
       ELSE \A k \in Kinds \ {"Query"} : Typed(built[k].args)

\* graphql-js rejects a request that leaves a non-null argument out.
Requests(kind) ==
    LET args == built[kind].args
        required == {i \in 1..Len(args) : args[i].type.nonNull}
    IN {Supplied(args, S, page) :
           S \in {T \in SUBSET (1..Len(args)) : required \subseteq T}, page \in Pages}

\* One resolver runs from its call to the settling of its promise.
Idle == req = NoRequest

QueryResolve ==
    /\ Idle
    /\ Executable("Query")
    /\ \E args \in Requests("Query"), selections \in Selections :
          LET r == QueryResolver(args, selections, custom["Query"].customArgs)
          IN /\ req' = [kind |-> "Query", args |-> args, selections |-> selections]
             /\ db' = r.db
             /\ result' = r.result
    /\ UNCHANGED <<schema, custom, calls, built, contexts, rootFields, ctx, inflight,
                   pass, relationships, objectTypes, objects, recordType>>

InsertResolve ==
    /\ Idle
    /\ Executable("Insert")
    /\ \E args \in Requests("Insert"), outcome \in Outcomes :
          LET r == InsertResolver(args, outcome)
          IN /\ req' = [kind |-> "Insert", args |-> args, selections |-> <<>>]
             /\ db' = r.db
             /\ result' = r.result
    /\ UNCHANGED <<schema, custom, calls, built, contexts, rootFields, ctx, inflight,
                   pass, relationships, objectTypes, objects, recordType>>

UpdateResolve ==
    /\ Idle
    /\ Executable("Update")
    /\ \E args \in Requests("Update"), outcome \in Outcomes :
          LET r == UpdateResolver(args, custom["Update"].customArgs, outcome)
          IN /\ req' = [kind |-> "Update", args |-> args, selections |-> <<>>]
             /\ db' = r.db
             /\ result' = r.result
    /\ UNCHANGED <<schema, custom, calls, built, contexts, rootFields, ctx, inflight,
                   pass, relationships, objectTypes, objects, recordType>>

DeleteResolve ==
    /\ Idle
    /\ Executable("Delete")
    /\ \E args \in Requests("Delete"), outcome \in Outcomes :
          LET r == DeleteResolver(args, custom["Delete"].customArgs, outcome)
          IN /\ req' = [kind |-> "Delete", args |-> args, selections |-> <<>>]
             /\ db' = r.db
             /\ result' = r.result
    /\ UNCHANGED <<schema, custom, calls, built, contexts, rootFields, ctx, inflight,
                   pass, relationships, objectTypes, objects, recordType>>

\* The response is sent: nothing of a resolution outlives it (resolveCtx and
\* the argument objects are locals of the resolver).
Respond ==
    /\ ~Idle
    /\ req' = NoRequest
    /\ db' = NoCalls
    /\ result' = NoResult
    /\ UNCHANGED <<schema, custom, calls, built, contexts, rootFields, ctx, inflight,
                   pass, relationships, objectTypes, objects, recordType>>

\* Queries: a context is registered, its Query arguments are customized, the
\* root query object is created and queries are resolved.
QueryInit == schema = UserTable /\ relationships = UserRelationships /\ Start

QueryNext ==
    \/ AddArgumentCall({"Query"})
    \/ RemoveArgumentCall({"Query"})
    \/ ChangeArgumentCall({"Query"})
    \/ CreateRootQueryObject
    \/ QueryResolve
    \/ Respond

QuerySpec == QueryInit /\ [][QueryNext]_vars

\* Mutations: the same for the root mutation object.
MutationKinds == {"Insert", "Update", "Delete"}

MutationNext ==
    \/ AddArgumentCall(MutationKinds)
    \/ RemoveArgumentCall(MutationKinds)
    \/ ChangeArgumentCall(MutationKinds)
    \/ CreateRootMutationObject
    \/ InsertResolve
    \/ UpdateResolve
    \/ DeleteResolve
    \/ Respond

MutationSpec == QueryInit /\ [][MutationNext]_vars

\* Synthesis: any table is registered and customized, and the root objects
\* are created.
SynthInit == schema \in Tables /\ relationships = UserRelationships /\ Start

SynthNext ==
    \/ AddArgumentCall(Kinds)
    \/ RemoveArgumentCall(Kinds)
    \/ ChangeArgumentCall(Kinds)
    \/ CreateRootQueryObject
    \/ CreateRootMutationObject

SynthSpec == SynthInit /\ [][SynthNext]_vars

\* Registration: contexts are registered under display names with mutation
\* options, and the root objects are created.
ContextNames == {"User", "Users", "Role"}

\* addContext: the entry of the display name is created or replaced (a key
\* that is assigned again keeps its place), with fresh customization sets.
AddContextCall ==
    /\ rootFields = [Query |-> NoRoot, Mutation |-> NoRoot]
    /\ \E name \in ContextNames, options \in MutationOptions :
          /\ contexts' = Put(contexts, [name |-> name, mutationOptions |-> options])
          /\ custom' = IF name = TableName THEN [k \in Kinds |-> NoCustomArgs] ELSE custom
          /\ calls' = IF name = TableName THEN 0 ELSE calls
    /\ objectTypes' = <<>>
    /\ UNCHANGED <<schema, built, req, db, result, rootFields, ctx, inflight,
                   pass, relationships, objects, recordType>>

RootNext ==
    \/ AddContextCall
    \/ CreateRootQueryObject
    \/ CreateRootMutationObject

RootSpec == QueryInit /\ [][RootNext]_vars

\* Concurrent resolutions.  A resolver is an async function: its calls on the
\* data context may interleave with those of other resolutions.

\* The calls a resolution makes, as the data context they leave behind:
\* they depend on its own arguments and selection tree only.
Target(r) ==
    CASE r.kind = "Query" ->
            QueryResolver(r.args, r.selections, custom["Query"].customArgs).db
      [] r.kind = "Insert" -> InsertResolver(r.args, r.outcome).db
      [] r.kind = "Update" ->
            UpdateResolver(r.args, custom["Update"].customArgs, r.outcome).db
      [] r.kind = "Delete" ->
            DeleteResolver(r.args, custom["Delete"].customArgs, r.outcome).db
      [] OTHER -> NoCalls

\* Call number n of a resolution: the method and what it is given.
CallAt(target, n) ==
    LET op == target.ops[n]
        j == Cardinality({i \in 1..n : target.ops[i] = "where"})
    IN [NoCalls EXCEPT
           !.ops = <<op>>,
           !.where = IF op = "where" /\ j <= Len(target.where)
                     THEN <<target.where[j]>> ELSE <<>>,
           !.take = IF op = "take" THEN target.take ELSE {},
           !.skip = IF op = "skip" THEN target.skip ELSE {},
           !.derefs = IF op = "include" THEN target.derefs ELSE {},
           !.included = IF op = "include" THEN target.included ELSE <<>>,
           !.select = IF op = "select" THEN target.select ELSE <<>>,
           !.values = IF op \in {"insert", "update"} THEN target.values ELSE <<>>,
           !.rows = IF op \in {"update", "delete"} THEN target.rows ELSE {}]

\* The handle a call on a handle returns.
Apply(handle, call) ==
    [ops |-> handle.ops \o call.ops,
     where |-> handle.where \o call.where,
     take |-> handle.take \cup call.take,
     skip |-> handle.skip \cup call.skip,
     derefs |-> handle.derefs \cup call.derefs,
     included |-> handle.included \o call.included,
     select |-> handle.select \o call.select,
     values |-> handle.values \o call.values,
     rows |-> handle.rows \cup call.rows]

\* A faulty Bind: the call is made on the registered handle, which keeps it.
BindShared(shared, local, call) ==
    [shared |-> Apply(shared, call), local |-> Apply(shared, call)]

\* resolveCtx = resolveCtx.where(...): the call is made on the handle of the
\* resolution and returns a new handle; the registered handle is not touched.
Bind(shared, local, call) ==
    [shared |-> shared, local |-> Apply(local, call)]

\* The requests that run concurrently.
ConcKinds == {"Query", "Insert", "Update", "Delete"}
ConcPage == [skip |-> 2, take |-> 2]
ConcSelections == { <<Leaf("Id")>>,
                    <<Leaf("Id"), Node("UserRoles", <<Leaf("RoleId"), Node("Role", <<Leaf("Title")>>)>>)>> }

ConcRequests(kind) ==
    LET args == built[kind].args
        required == {i \in 1..Len(args) : args[i].type.nonNull}
    IN {Supplied(args, S, ConcPage) :
           S \in {T \in SUBSET (1..Len(args)) : required \subseteq T}}

\* let resolveCtx = ctx
BeginResolve ==
    \E p \in Procs, kind \in ConcKinds :
        /\ inflight[p] = NotRunning
        /\ Executable(kind)
        /\ \E args \in ConcRequests(kind),
              selections \in (IF kind = "Query" THEN ConcSelections ELSE {<<>>}),
              outcome \in (IF kind = "Query" THEN {NoOutcome}
                           ELSE {[rejected |-> FALSE, rows |-> 1]}) :
              inflight' = [inflight EXCEPT ![p] =
                              [kind |-> kind, args |-> args, selections |-> selections,
                               outcome |-> outcome, pc |-> 0, resolveCtx |-> ctx,
                               status |-> "running"]]
        /\ UNCHANGED <<schema, custom, calls, built, req, db, result, contexts, rootFields, ctx,
                       pass, relationships, objectTypes, objects, recordType>>

\* The next call of a resolution on the data context.
StepResolve ==
    \E p \in Procs :
        LET r == inflight[p]
            target == Target(r)
            b == Bind(ctx, r.resolveCtx, CallAt(target, r.pc + 1))
        IN /\ r.status = "running"
           /\ r.pc < Len(target.ops)
           /\ ctx' = b.shared
           /\ inflight' = [inflight EXCEPT ![p] =
                              [r EXCEPT !.pc = r.pc + 1, !.resolveCtx = b.local,
                                        !.status = IF r.pc + 1 = Len(target.ops)
                                                   THEN "settled" ELSE "running"]]
           /\ UNCHANGED <<schema, custom, calls, built, req, db, result, contexts, rootFields,
                          pass, relationships, objectTypes, objects, recordType>>

\* The promise of a resolution settles and its locals are gone.
SettleResolve ==
    \E p \in Procs :
        /\ inflight[p].status = "settled"
        /\ inflight' = [inflight EXCEPT ![p] = NotRunning]
        /\ UNCHANGED <<schema, custom, calls, built, req, db, result, contexts, rootFields, ctx,
                       pass, relationships, objectTypes, objects, recordType>>

ConcNext ==
    \/ CreateRootQueryObject
    \/ CreateRootMutationObject
    \/ BeginResolve
    \/ StepResolve
    \/ SettleResolve

ConcSpec == QueryInit /\ [][ConcNext]_vars

\* Retained handles.  The handle functions addContext gives the callback are
\* closures over #contexts[ctxName]: a callback that keeps them can call them
\* after a root object was created, and they do then what they always do.
Retained ==
    /\ calls < MaxCalls
    /\ \E root \in {"Query", "Mutation"} : rootFields[root].status # "none"

RetainedAddArgumentCall(kinds) ==
    /\ Retained
    /\ \E kind \in kinds, name \in AddNames, description \in Descriptions,
          callback \in {"h1"} :
          /\ "addArgument" \in Handles(kind)
          /\ custom' = [custom EXCEPT ![kind] =
                            addArgument(@, name, description, GraphQLString, callback)]
    /\ calls' = calls + 1
    /\ UNCHANGED <<schema, built, req, db, result, contexts, rootFields, ctx, inflight,
                   pass, relationships, objectTypes, objects, recordType>>

RetainedRemoveArgumentCall(kinds) ==
    /\ Retained
    /\ \E kind \in kinds :
          \E p \in (SUBSET RefNames(kind)) \ {{}} :
              custom' = [custom EXCEPT ![kind] = removeArgument(@, p)]
    /\ calls' = calls + 1
    /\ UNCHANGED <<schema, built, req, db, result, contexts, rootFields, ctx, inflight,
                   pass, relationships, objectTypes, objects, recordType>>

RetainedChangeArgumentCall(kinds) ==
    /\ Retained
    /\ \E kind \in kinds :
          \E p \in RefNames(kind), state \in ChainStates :
              custom' = [custom EXCEPT ![kind] = changeArgument(@, p, state)]
    /\ calls' = calls + 1
    /\ UNCHANGED <<schema, built, req, db, result, contexts, rootFields, ctx, inflight,
                   pass, relationships, objectTypes, objects, recordType>>

RetainedNext ==
    \/ CreateRootQueryObject
    \/ RetainedAddArgumentCall({"Query"})
    \/ RetainedRemoveArgumentCall({"Query"})
    \/ RetainedChangeArgumentCall({"Query"})
    \/ QueryResolve
    \/ Respond

RetainedSpec == QueryInit /\ [][RetainedNext]_vars

\* One configuration pass: the callback of addContext makes several handle
\* calls, as the callbacks of the tests do, before any root object is created.
\* Each call is recorded with the properties it dereferenced on the proxy and
\* with how it ended (the handle functions have no throw but the one for a
\* symbol property).
PassKinds == {"Query", "Delete"}

Passing ==
    /\ Len(pass) < MaxPassCalls
    /\ rootFields = [Query |-> NoRoot, Mutation |-> NoRoot]

Called(handle, kind, names) ==
    [handle |-> handle, kind |-> kind, names |-> names, outcome |-> "returned"]

PassAddArgument ==
    /\ Passing
    /\ \E kind \in PassKinds, name \in AddNames, description \in Descriptions,
          callback \in {"h1"} :
          /\ "addArgument" \in Handles(kind)
          /\ custom' = [custom EXCEPT ![kind] =
                            addArgument(@, name, description, GraphQLString, callback)]
          /\ pass' = Append(pass, Called("addArgument", kind, {name}))
    /\ calls' = calls + 1
    /\ UNCHANGED <<schema, built, req, db, result, contexts, rootFields, ctx, inflight,
                   relationships, objectTypes, objects, recordType>>

PassRemoveArgument ==
    /\ Passing
    /\ \E kind \in PassKinds :
          \E p \in (SUBSET RefNames(kind)) \ {{}} :
              /\ custom' = [custom EXCEPT ![kind] = removeArgument(@, p)]
              /\ pass' = Append(pass, Called("removeArgument", kind, p))
    /\ calls' = calls + 1
    /\ UNCHANGED <<schema, built, req, db, result, contexts, rootFields, ctx, inflight,
                   relationships, objectTypes, objects, recordType>>

PassChangeArgument ==
    /\ Passing
    /\ \E kind \in PassKinds :
          \E p \in RefNames(kind), state \in ChainStates :
              /\ custom' = [custom EXCEPT ![kind] = changeArgument(@, p, state)]
              /\ pass' = Append(pass, Called("changeArgument", kind, {p}))
    /\ calls' = calls + 1
    /\ UNCHANGED <<schema, built, req, db, result, contexts, rootFields, ctx, inflight,
                   relationships, objectTypes, objects, recordType>>

PassNext ==
    \/ PassAddArgument
    \/ PassRemoveArgument
    \/ PassChangeArgument
    \/ CreateRootQueryObject
    \/ CreateRootMutationObject

PassSpec == QueryInit /\ [][PassNext]_vars

\* Record types: a table with any of these relationship trees is registered and
\* the root objects are created, in any order and any number of times.
RoleTitle == <<Column("Title", "string", Required)>>
XrefRoleId == <<Column("RoleId", "int", Required)>>

Metadata ==
    { <<>>,
      UserRelationships,
      \* Role is reached by two paths, with different columns
      <<Relationship("Role", "1:1", "Role", RoleTitle, <<>>),
        Relationship("UserRoles", "1:n", "UserRoleXref", XrefRoleId,
            <<Relationship("Role", "1:1", "Role",
                  RoleTitle \o <<Column("Level", "int", Required)>>, <<>>)>>)>>,
      \* the key Roles is a one-to-many here and a one-to-one there
      <<Relationship("Roles", "1:n", "Role", RoleTitle, <<>>),
        Relationship("UserRoles", "1:n", "UserRoleXref", XrefRoleId,
            <<Relationship("Roles", "1:1", "Role", RoleTitle, <<>>)>>)>>,
      \* User includes itself through UserRoles
      <<Relationship("UserRoles", "1:n", "UserRoleXref", XrefRoleId,
            <<Relationship("User", "1:1", "User",
                  <<Column("Name", "string", Required)>>, <<>>)>>)>>,
      \* a column of a datatype getGraphQLType does not know
      <<Relationship("UserRoles", "1:n", "UserRoleXref", XrefRoleId, <<>>),
        Relationship("Profile", "1:1", "Profile",
            <<Column("Bio", "json", Required)>>, <<>>)>> }

BuildInit == schema \in Tables /\ relationships \in Metadata /\ Start

BuildNext ==
    \/ CreateRootQueryObject
    \/ CreateRootMutationObject

BuildSpec == BuildInit /\ [][BuildNext]_vars

\* Datatypes: a table of any datatype, one MyORM does not describe ("json")
\* included, is registered, the root objects are created and requests resolved.
Datatypes == {"string", "int", "float", "boolean", "date", "json"}

TypedTables == { <<Column("Name", d, f)>> : d \in Datatypes, f \in ColumnFlags }

TypeInit == schema \in TypedTables /\ relationships = UserRelationships /\ Start

TypeNext ==
    \/ RemoveArgumentCall(Kinds)
    \/ CreateRootQueryObject
    \/ CreateRootMutationObject
    \/ QueryResolve
    \/ InsertResolve
    \/ UpdateResolve
    \/ DeleteResolve
    \/ Respond

TypeSpec == TypeInit /\ [][TypeNext]_vars

----------------------------------------------------------------------------
(* Properties *)

Range(f) == {f[i] : i \in DOMAIN f}

Resolved(kind) == req.kind = kind /\ result.status # "none"

WriteOps == {"insert", "update", "delete"}

\* The arguments of the request that filter rows: for Update the filterBy_
\* arguments and the custom arguments, for Delete every argument.
FilterSet ==
    IF req.kind = "Update"
    THEN {a \in Range(req.args) :
            StartsWith(a.name, "filterBy_") \/ Has(custom["Update"].customArgs, a.name)}
    ELSE Range(req.args)

\* C1: an Update or Delete resolution whose filter set is empty fails with
\* UnscopedMutationRejected and never calls update() or delete() on the data
\* context.
C1_UnscopedMutationRejected ==
    (req.kind \in {"Update", "Delete"} /\ result.status # "none" /\ FilterSet = {})
        => /\ result = Threw("UnscopedMutationRejected")
           /\ \A i \in 1..Len(db.ops) : db.ops[i] \notin WriteOps

\* The predicate registered for an argument name, if one is.
HasPredicate(customArgs, k) ==
    Has(customArgs, k) /\ Get(customArgs, k).handler # Undefined

\* The condition the specification gives argument a, whose column is col.
ConditionFor(customArgs, a, col) ==
    IF HasPredicate(customArgs, a.name)
    THEN [by |-> "handler", on |-> Get(customArgs, a.name).handler, value |-> a.value]
    ELSE [by |-> "eq", on |-> col, value |-> a.value]

DynamicArgs == SelectSeq(req.args, LAMBDA a : a.name \notin {"skip", "take"})

\* C2: a Query resolution adds exactly one condition per supplied argument
\* other than skip and take, in the order of the arguments: the registered
\* predicate applied to the value when the name has one, the equality of the
\* column of that name with the value otherwise.
C2_QueryFilterMapping ==
    Resolved("Query")
        => /\ Len(db.where) = Len(DynamicArgs)
           /\ \A i \in 1..Len(DynamicArgs) :
                 db.where[i] = ConditionFor(custom["Query"].customArgs,
                                            DynamicArgs[i], DynamicArgs[i].name)

\* A path is requested when the selection tree has a leaf at it.
RECURSIVE Requested(_, _)
Requested(path, selections) ==
    \E i \in 1..Len(selections) :
        /\ selections[i].name = Head(path)
        /\ IF Len(path) = 1 THEN selections[i].selectionSet = <<>>
           ELSE /\ selections[i].selectionSet # <<>>
                /\ Requested(Tail(path), selections[i].selectionSet)

RECURSIVE FieldNames(_)
FieldNames(selections) ==
    IF selections = <<>> THEN {}
    ELSE {Head(selections).name} \cup FieldNames(Head(selections).selectionSet)
                                 \cup FieldNames(Tail(selections))

RECURSIVE Depth(_)
Depth(selections) ==
    IF selections = <<>> THEN 0
    ELSE LET d == 1 + Depth(Head(selections).selectionSet)
             e == Depth(Tail(selections))
         IN IF d > e THEN d ELSE e

\* Every path of the fields of the registered table and of the selection tree.
Paths(selections) ==
    UNION {[1..n -> FieldNames(selections) \cup KeySet(schema)] : n \in 1..Depth(selections)}

\* C3: the columns a Query resolution hands to select() are exactly the
\* requested leaves, each once, at the path of its relationships; no other
\* column of the table or of a related table is selected.
C3_ExactProjection ==
    (Resolved("Query") /\ result.status = "returned")
        => /\ "select" \in Range(db.ops)
           /\ \A path \in Paths(req.selections) \cup Range(db.select) :
                 path \in Range(db.select) <=> Requested(path, req.selections)
           /\ Cardinality(Range(db.select)) = Len(db.select)

\* A query selected a nested leaf and left a column of the table out.
C3_Witness ==
    /\ Resolved("Query") /\ result.status = "returned"
    /\ <<"UserRoles", "RoleId">> \in Range(db.select)
    /\ <<"Id">> \in Range(db.select)
    /\ <<"Name">> \notin Range(db.select)

\* The fields of a level that have a selection set.
Nested(selections) == {i \in 1..Len(selections) : selections[i].selectionSet # <<>>}

RECURSIVE IsChain(_)
IsChain(selections) ==
    /\ Cardinality(Nested(selections)) <= 1
    /\ \A i \in Nested(selections) : IsChain(selections[i].selectionSet)

\* The relationship at level n of a chain.
RECURSIVE Link(_, _)
Link(selections, n) ==
    LET s == selections[CHOOSE i \in Nested(selections) : TRUE]
    IN IF n = 1 THEN s.name ELSE Link(s.selectionSet, n - 1)

RECURSIVE Links(_)
Links(selections) ==
    IF Nested(selections) = {} THEN 0
    ELSE 1 + Links(selections[CHOOSE i \in Nested(selections) : TRUE].selectionSet)

UserRolesRoleTitle ==
    <<Leaf("Id"), Node("UserRoles", <<Leaf("RoleId"), Node("Role", <<Leaf("Title")>>)>>)>>

\* C4: for a selection with a chain of nested relationship fields, a Query
\* resolution gives include() the relationships of the chain in nesting order,
\* one per nested selection set, to the full depth of the selection; for
\* User{Id, UserRoles{RoleId, Role{Title}}} it includes UserRoles and Role
\* under it and selects Id, UserRoles.RoleId and UserRoles.Role.Title.
C4_NestedIncludeChain ==
    (Resolved("Query") /\ result.status = "returned" /\ IsChain(req.selections))
        => /\ "include" \in Range(db.ops)
           /\ Len(db.included) = Links(req.selections)
           /\ \A n \in 1..Links(req.selections) :
                 /\ db.included[n] = Link(req.selections, n)
                 /\ [i \in 1..n |-> Link(req.selections, i)] \in db.derefs
           /\ Cardinality(db.derefs) = Links(req.selections)
           /\ req.selections = UserRolesRoleTitle
                 => /\ db.included = <<"UserRoles", "Role">>
                    /\ db.select = << <<"Id">>, <<"UserRoles", "RoleId">>,
                                      <<"UserRoles", "Role", "Title">> >>

\* The query of the README ran: two levels were included.
C4_Witness ==
    /\ Resolved("Query") /\ result.status = "returned"
    /\ req.selections = UserRolesRoleTitle
    /\ db.derefs = {<<"UserRoles">>, <<"UserRoles", "Role">>}

Present(k) == \E a \in Range(req.args) : a.name = k

\* C5: in a Query resolution a limit of take is applied when take is present,
\* an offset of skip only when take is present too; skip without take applies
\* neither and is no error; with neither no pagination call is made.
C5_Pagination ==
    (Resolved("Query") /\ (result.status = "returned" \/ DynamicArgs = <<>>))
        => /\ result.status = "returned"
           /\ Present("take")
                 => /\ "take" \in Range(db.ops)
                    /\ db.take = ValueOf(req.args, "take")
           /\ "skip" \in Range(db.ops)
                 => /\ Present("take") /\ Present("skip")
                    /\ db.skip = ValueOf(req.args, "skip")
           /\ ~Present("take")
                 => /\ "take" \notin Range(db.ops) /\ "skip" \notin Range(db.ops)
                    /\ db.take = {} /\ db.skip = {}

\* The filter arguments of the request, in the order they were supplied.
FilterArgs == SelectSeq(req.args, LAMBDA a : a \in FilterSet)

\* The column a filter argument of a mutation names.
ColumnOf(name) ==
    IF req.kind = "Update" /\ StartsWith(name, "filterBy_")
    THEN SubSeq(name, Len("filterBy_") + 1, Len(name))
    ELSE name

WriteOf(kind) == IF kind = "Update" THEN "update" ELSE "delete"

\* C6: an Update or Delete resolution adds, for every supplied filter argument
\* in turn, the equality of its column with the value, or the registered
\* predicate applied to the value for a custom argument; it then calls the
\* write operation once, and returns as numRowsAffected the number the data
\* context resolved to.
C6_UpdateDeleteFilterMapping ==
    (req.kind \in {"Update", "Delete"} /\ result.status # "none"
        /\ FilterSet # {} /\ result # Threw("rejected"))
        => /\ db.where = [i \in 1..Len(FilterArgs) |->
                            ConditionFor(custom[req.kind].customArgs, FilterArgs[i],
                                         ColumnOf(FilterArgs[i].name))]
           /\ db.ops = Repeat("where", Len(FilterArgs)) \o <<WriteOf(req.kind)>>
           /\ db.rows # {}
           /\ result = Returned(db.rows)

\* The columns of the table an Update may set.
Settable == {c \in Range(schema) : ~c.isIdentity /\ ~c.isVirtual}

\* C7: the record an Update resolution gives update() holds exactly the
\* supplied arguments that set a column; no filterBy_ argument and no custom
\* argument is among the values to set.
C7_UpdateValueFilterSplit ==
    (Resolved("Update") /\ "update" \in Range(db.ops))
        => /\ \A v \in Range(db.values) :
                 /\ v \in Range(req.args)
                 /\ ~StartsWith(v.name, "filterBy_")
                 /\ ~Has(custom["Update"].customArgs, v.name)
           /\ \A a \in Range(req.args) :
                 (a.name \in {c.name : c \in Settable}
                     /\ ~Has(custom["Update"].customArgs, a.name))
                     => a \in Range(db.values)

\* The Update argument set of a context whose Update arguments were not customized.
PlainUpdate == built["Update"].status = "ok" /\ custom["Update"] = NoCustomArgs

FilterByArgs == {a \in Range(built["Update"].args) : StartsWith(a.name, "filterBy_")}

SetArgs == {a \in Range(built["Update"].args) : ~StartsWith(a.name, "filterBy_")}

ArgOf(kind, c) == Get(built[kind].args, c.name)

OnlyRemovedOrChanged(kind) ==
    \A a \in Range(custom[kind].customArgs) : a.handler # "h1"

\* C10: whatever removeArgument and changeArgument calls were made, no
\* identity column and no virtual column is an argument of Insert or an
\* un-prefixed argument of Update (in an argument set graphql-js accepts:
\* every argument has a type).
C10_IdentityVirtualExclusion ==
    \A c \in Range(schema) :
        (c.isIdentity \/ c.isVirtual)
            => \A kind \in {"Insert", "Update"} :
                  (built[kind].status = "ok" /\ Typed(built[kind].args)
                      /\ OnlyRemovedOrChanged(kind))
                      => ~Has(built[kind].args, c.name)

----------------------------------------------------------------------------
(* Properties of the customization calls *)

\* The default arguments of a kind: those synthesized without customization.
Defaults(kind) == KeySet(Synthesize(kind, schema, NoCustomArgs))

\* C11: after removeArgument referenced some names, the argument set of the
\* kind is the default argument set without the referenced names: every
\* referenced default argument (the filterBy_ arguments of Update too) is
\* absent and every other default argument is still present.
C11_RemoveArgument ==
    \A kind \in Kinds :
        (built[kind].status = "ok" /\ custom[kind].customArgs = <<>>)
            => KeySet(built[kind].args) = Defaults(kind) \ custom[kind].ignoredArgs

\* changeArgument renamed the default argument a of the kind to the new name b
\* (the only customization of the kind).
Renamed(kind, a, b) ==
    /\ Len(custom[kind].customArgs) = 1
    /\ custom[kind].customArgs[1].name = b
    /\ custom[kind].ignoredArgs = {a}
    /\ a \in Defaults(kind)
    /\ b \notin Defaults(kind)

\* C12: after changeArgument renamed the default argument a to b, the
\* argument set of the kind has b and not a, and b has the description and
\* the type given in the chain.
C12_ChangeArgumentRename ==
    \A kind \in Kinds : \A a \in Defaults(kind), b \in NewNames :
        (built[kind].status = "ok" /\ Renamed(kind, a, b))
            => /\ Has(built[kind].args, b)
               /\ ~Has(built[kind].args, a)
               /\ Get(built[kind].args, b).description
                     = custom[kind].customArgs[1].description
               /\ custom[kind].customArgs[1].type # NoType
                     => Get(built[kind].args, b).type = custom[kind].customArgs[1].type

\* changeArgument changed arguments of the kind and never chained definedAs.
Unredefined(kind) ==
    /\ custom[kind].customArgs # <<>>
    /\ \A a \in Range(custom[kind].customArgs) : a.handler = Undefined

\* The column a changed argument stood for: the old name when it was renamed.
OriginalColumn(kind, name) ==
    IF ~Has(custom[kind].customArgs, name) THEN name
    ELSE IF \E a \in custom[kind].ignoredArgs : a # Undefined
         THEN CHOOSE a \in custom[kind].ignoredArgs : a # Undefined
         ELSE name

\* C13: when changeArgument renamed, redescribed or retyped Query arguments
\* without redefining the predicate, creating the root query object succeeds,
\* and a query that supplies arguments returns, having added for each of them
\* the equality of its original column with the value.
C13_DefaultEqualityPreserved ==
    Unredefined("Query")
        => /\ rootFields["Query"].status # "none"
                 => built["Query"].status = "ok" /\ Typed(built["Query"].args)
           /\ Resolved("Query")
                 => /\ result.status = "returned"
                    /\ Len(db.where) = Len(DynamicArgs)
                    /\ \A i \in 1..Len(DynamicArgs) :
                          db.where[i] = [by |-> "eq",
                                         on |-> OriginalColumn("Query", DynamicArgs[i].name),
                                         value |-> DynamicArgs[i].value]

\* C14: addArgument fails with DuplicateArgument, and leaves the customization
\* set as it was, when the name is that of a default argument of the kind: no
\* argument that addArgument added ("h1" is the predicate the addArgument
\* calls pass) has the name of a default argument.
C14_AddArgumentDuplicateRejected ==
    \A kind \in Kinds : \A a \in Range(custom[kind].customArgs) :
        a.handler = "h1" => a.name \notin Defaults(kind)

\* C15: Insert.removeArgument cannot remove a required column (not nullable,
\* not identity, not virtual): whatever removeArgument calls were made, every
\* required column is an argument of Insert.
C15_RequiredInsertArgumentKept ==
    \A c \in Range(schema) :
        (~c.isNullable /\ ~c.isIdentity /\ ~c.isVirtual)
            => ((built["Insert"].status = "ok" /\ custom["Insert"].customArgs = <<>>)
                   => Has(built["Insert"].args, c.name))

----------------------------------------------------------------------------
(* Properties of the root objects *)

NoDuplicates(seq) == Cardinality(Range(seq)) = Len(seq)

\* C16: the root query object has exactly one field per registered context,
\* keyed by its display name, whatever the mutation options; the root mutation
\* object has for each registered context D the field insert<singular(D)>
\* exactly when its disableInserts is false, and likewise update and delete,
\* and no other field.
C16_RootAggregation ==
    /\ rootFields["Query"].status = "ok"
          => /\ Range(rootFields["Query"].fields) = KeySet(contexts)
             /\ NoDuplicates(rootFields["Query"].fields)
    /\ rootFields["Mutation"].status = "ok"
          => LET F == Range(rootFields["Mutation"].fields)
             IN /\ \A c \in Range(contexts) :
                      /\ ("insert" \o singular(c.name)) \in F
                            <=> ~c.mutationOptions.disableInserts
                      /\ ("update" \o singular(c.name)) \in F
                            <=> ~c.mutationOptions.disableUpdates
                      /\ ("delete" \o singular(c.name)) \in F
                            <=> ~c.mutationOptions.disableDeletes
                /\ F \subseteq {op \o singular(c.name) :
                                  op \in {"insert", "update", "delete"}, c \in Range(contexts)}
                /\ NoDuplicates(rootFields["Mutation"].fields)

\* The scalar the specification gives each datatype.
MapType(datatype) ==
    CASE datatype = "string" -> "String"
      [] datatype = "int" -> "Int"
      [] datatype = "float" -> "Float"
      [] datatype = "boolean" -> "Boolean"
      [] datatype = "date" -> "String"

KnownDatatypes == {"string", "int", "float", "boolean", "date"}

\* C17: a column of one of the five datatypes is given the scalar of the
\* table, wrapped as non-null exactly when nullable is false, in every
\* argument made for it; for a column of any other datatype the mapping
\* fails, creating either root object fails, and no request is ever resolved.
C17_TypeMapping ==
    \A c \in Range(schema) :
        IF c.datatype \in KnownDatatypes
        THEN /\ \A nullable \in BOOLEAN :
                   getGraphQLType(c.name, c.datatype, nullable)
                       = [scalar |-> MapType(c.datatype), nonNull |-> ~nullable]
             /\ \A kind \in Kinds :
                   (built[kind].status = "ok" /\ Has(built[kind].args, c.name))
                       => ArgOf(kind, c).type =
                             [scalar |-> MapType(c.datatype),
                              nonNull |-> kind = "Insert" /\ ~c.isNullable /\ ~c.isIdentity]
             /\ \A kind \in Kinds : built[kind].status # "threw"
        ELSE /\ \A nullable \in BOOLEAN :
                   getGraphQLType(c.name, c.datatype, nullable) = ThrownType
             /\ rootFields["Query"].status \in {"none", "threw"}
             /\ rootFields["Mutation"].status \in {"none", "threw"}
             /\ \A kind \in Kinds : built[kind].status \in {"none", "threw"}
             /\ req = NoRequest

\* Both root objects were asked for with a column of a datatype outside the
\* five, and both calls failed.
C17_Witness ==
    /\ \E c \in Range(schema) : c.datatype = "json"
    /\ rootFields["Query"].status = "threw"
    /\ rootFields["Mutation"].status = "threw"

----------------------------------------------------------------------------
(* Properties of the writes *)

\* The positions of the write among the calls of the resolution.
Writes == {i \in 1..Len(db.ops) : db.ops[i] \in WriteOps}

\* C18: an Insert, Update or Delete resolution calls the write of the data
\* context at most once; Insert gives it the supplied arguments unchanged; a
\* resolution whose write was rejected fails with that rejection, and the
\* rejected write is its last call on the data context.
C18_WriteFailureSurfaced ==
    (req.kind \in MutationKinds /\ result.status # "none")
        => /\ Cardinality(Writes) <= 1
           /\ req.kind = "Insert" => db.ops = <<"insert">> /\ db.values = req.args
           /\ result = Threw("rejected") => Writes = {Len(db.ops)}
           /\ (Writes # {} /\ result.status = "threw")
                 => result = Threw("rejected") /\ db.rows = {}

\* An insert that supplied an argument was rejected by the data context.
C18_Witness ==
    /\ req.kind = "Insert"
    /\ req.args # <<>>
    /\ result = Threw("rejected")
    /\ db.ops = <<"insert">>

----------------------------------------------------------------------------
(* Properties of concurrent resolutions *)

\* The handle after the first n calls of a resolution, made on a fresh handle.
RECURSIVE After(_, _)
After(target, n) ==
    IF n = 0 THEN NoCalls ELSE Apply(After(target, n - 1), CallAt(target, n))

\* C20: in every interleaving of concurrent resolutions, the conditions,
\* pagination, includes and projection (and the write) each resolution has
\* issued are exactly those derived from its own arguments and selection
\* tree, complete once it has settled; the registered context handle and the
\* customization sets stay as they were.
C20_ResolutionIsolation ==
    /\ ctx = NoCalls
    /\ custom = [k \in Kinds |-> NoCustomArgs]
    /\ \A p \in Procs :
          inflight[p].status # "none"
              => /\ inflight[p].resolveCtx = After(Target(inflight[p]), inflight[p].pc)
                 /\ inflight[p].status = "settled"
                       => inflight[p].resolveCtx = Target(inflight[p])

\* A query has settled while an update with other arguments is between two calls.
C20_Witness ==
    /\ inflight["r1"].kind = "Query" /\ inflight["r1"].status = "settled"
    /\ Len(inflight["r1"].resolveCtx.where) = 2
    /\ inflight["r2"].kind = "Update" /\ inflight["r2"].status = "running"
    /\ inflight["r2"].pc = 1
    /\ Len(inflight["r2"].args) = 2

----------------------------------------------------------------------------
(* Properties of the configuration phase *)

Synthesized == \E root \in {"Query", "Mutation"} : rootFields[root].status # "none"

\* C21: once createRootQueryObject or createRootMutationObject has begun, the
\* customization sets are frozen: no step after that, a call of a retained
\* addArgument / removeArgument / changeArgument handle included, changes
\* them, so the predicate a later resolution applies for an argument (custom
\* handler or default equality) is the one fixed at synthesis.
C21_CustomizationFrozen ==
    [][Synthesized => custom' = custom]_vars

----------------------------------------------------------------------------
(* Properties of the record types *)

\* The fields of the record type an operation returns a list of.
ReturnedFields(kind) == objects[recordType[kind]].fields

\* C25: the record type the Insert operation returns has the columns of the
\* table as its fields and no relationship field, whatever the order in which
\* createRootQueryObject and createRootMutationObject were called.
C25_InsertReturnTypeFlat ==
    recordType["Insert"] # 0
        => /\ Keys(ReturnedFields("Insert")) = Keys(schema)
           /\ \A i \in 1..Len(ReturnedFields("Insert")) :
                 ReturnedFields("Insert")[i].ref = 0

\* The field of a record type that has that name, as a set.
FieldNamed(fields, n) == {fields[i] : i \in {j \in 1..Len(fields) : fields[j].name = n}}

\* C29: the record type the Query operation returns has, next to the column
\* fields, one field per declared relationship, a list for a one-to-many and
\* the bare record type for a one-to-one, whether createRootQueryObject is
\* called before or after createRootMutationObject.
C29_QueryReturnTypeHasRelationships ==
    recordType["Query"] # 0
        => /\ \A i \in 1..Len(relationships) :
                 \E f \in FieldNamed(ReturnedFields("Query"), relationships[i].name) :
                     /\ f.ref # 0
                     /\ f.list = (relationships[i].type = "1:n")
           /\ \A c \in KeySet(schema) \ KeySet(relationships) :
                 \E f \in FieldNamed(ReturnedFields("Query"), c) : f.ref = 0

\* A relationship leads to a table that is already on its path from the root.
RECURSIVE IncludesItself(_, _)
IncludesItself(rels, tables) ==
    \E i \in 1..Len(rels) :
        \/ rels[i].table \in tables
        \/ IncludesItself(rels[i].relationships, tables \cup {rels[i].table})

\* C28: when the relationships of the registered table contain a cycle (the
\* table, or a table under it, transitively includes itself), synthesis ends
\* with a configuration error: no root query object and no Query record type
\* is made from such metadata.
C28_CycleRejected ==
    IncludesItself(relationships, {TableName})
        => /\ rootFields["Query"].status # "ok"
           /\ recordType["Query"] = 0

\* The relationship fields of the record type objects constructed so far.
RelationshipFields ==
    {f \in UNION {Range(objects[i].fields) : i \in 1..Len(objects)} : f.ref # 0}

\* C27: in one schema-build session (createRootQueryObject and
\* createRootMutationObject called in any order, any number of times, with no
\* addContext in between) at most one record type object is constructed per
\* generated type name; every relationship field refers to the one object
\* that has its generated name, made before the type that holds the field, so
\* two paths that generate the same name share the object built first; and a
\* one-to-many and a one-to-one relationship with the same key never refer to
\* the same object.  The cache holds exactly the objects constructed.
C27_CompositeTypeMemoization ==
    /\ NoDuplicates([i \in 1..Len(objects) |-> objects[i].name])
    /\ \A i \in 1..Len(objects) : \A f \in Range(objects[i].fields) :
          f.ref # 0 => /\ f.ref < i
                       /\ objects[f.ref].name = GeneratedName(f.name, f.list)
    /\ \A f \in RelationshipFields, g \in RelationshipFields :
          (f.name = g.name /\ f.list # g.list) => f.ref # g.ref
    /\ Len(objectTypes) = Len(objects)
    /\ \A i \in 1..Len(objectTypes) :
          objects[objectTypes[i].ref].name = objectTypes[i].name

\* Both root objects were created from a table whose relationship Role is
\* reached by two paths: two fields of different record types refer to the
\* same object.
C27_Witness ==
    /\ rootFields["Query"].status = "ok"
    /\ rootFields["Mutation"].status = "ok"
    /\ \E i \in 1..Len(objects), j \in 1..Len(objects) :
          /\ i # j
          /\ \E f \in Range(objects[i].fields), g \in Range(objects[j].fields) :
                 f.ref # 0 /\ f.ref = g.ref

----------------------------------------------------------------------------
(* Properties of one configuration pass *)

\* C22: after any sequence of addArgument, removeArgument and changeArgument
\* calls on one table and operation kind, no argument name is both in the
\* suppressed set (ignoredArgs) and in the map of custom and altered
\* arguments (customArgs).
C22_OneCustomizationCategory ==
    \A kind \in Kinds :
        KeySet(custom[kind].customArgs) \cap custom[kind].ignoredArgs = {}

\* Calls i and j of the pass are a removeArgument and a changeArgument of the
\* same operation kind that name the same original argument.
Conflicting(i, j) ==
    /\ pass[i].kind = pass[j].kind
    /\ {pass[i].handle, pass[j].handle} = {"removeArgument", "changeArgument"}
    /\ pass[i].names \cap pass[j].names # {}

\* C23: when a removeArgument and a changeArgument of one configuration pass
\* name the same original argument of the same table and operation kind, in
\* either order, the later of the two calls fails (ConflictingCustomization):
\* it does not return as if nothing were wrong.
C23_ConflictingCustomizationRejected ==
    \A i \in 1..Len(pass), j \in 1..Len(pass) :
        (i < j /\ Conflicting(i, j)) => pass[j].outcome = "threw"

----------------------------------------------------------------------------
(* Properties of the customization of mutations *)

\* The names of the filter arguments synthesis gives a mutation by default.
DefaultFilterNames(kind) ==
    IF kind = "Update" THEN {"filterBy_" \o c : c \in KeySet(schema)}
    ELSE KeySet(schema)

\* C24: for Insert, Update and Delete no changeArgument call puts a predicate
\* in place ("h2" is the predicate the changeArgument calls pass to
\* definedAs), and after any customization of Update or Delete a resolution
\* adds, for every default filter argument supplied, the equality of its
\* column with the value.
C24_PredicateRedefinitionQueryOnly ==
    /\ \A kind \in MutationKinds :
          \A a \in Range(custom[kind].customArgs) : a.handler # "h2"
    /\ (req.kind \in {"Update", "Delete"} /\ result.status # "none"
           /\ result # Threw("rejected"))
          => /\ result.status = "returned"
             /\ Len(db.where) = Len(FilterArgs)
             /\ \A i \in 1..Len(FilterArgs) :
                   FilterArgs[i].name \in DefaultFilterNames(req.kind)
                       => db.where[i] = [by |-> "eq", on |-> ColumnOf(FilterArgs[i].name),
                                         value |-> FilterArgs[i].value]

----------------------------------------------------------------------------
(* Properties of the order of the calls of a Query resolution *)

\* The place of a method in the pipeline of a Query resolution.
Rank(op) ==
    CASE op = "where" -> 1
      [] op = "take" -> 2
      [] op = "skip" -> 3
      [] op = "include" -> 4
      [] op = "select" -> 5
      [] OTHER -> 6

\* C30: in every Query resolution the calls on the data context come in the
\* order where (one per supplied filter argument), take, skip, include,
\* select; select is called exactly once and is the last call, so the read is
\* issued after every supplied filter and pagination argument was applied.
C30_QueryPipelineOrder ==
    Resolved("Query")
        => /\ \A i \in 1..Len(db.ops), j \in 1..Len(db.ops) :
                 i < j => Rank(db.ops[i]) <= Rank(db.ops[j])
           /\ Cardinality({i \in 1..Len(db.ops) : db.ops[i] = "select"}) = 1
           /\ db.ops # <<>> /\ db.ops[Len(db.ops)] = "select"
           /\ Cardinality({i \in 1..Len(db.ops) : db.ops[i] = "include"}) = 1
           /\ Len(db.where) = Len(DynamicArgs)
           /\ Present("take") => "take" \in Range(db.ops)
           /\ (Present("take") /\ Present("skip")) => "skip" \in Range(db.ops)

----------------------------------------------------------------------------
(* Properties of the relationships a Query resolution includes *)

\* The path leads, through fields with a selection set, to a field with a
\* selection set.
RECURSIVE Traverses(_, _)
Traverses(path, selections) ==
    \E i \in 1..Len(selections) :
        /\ selections[i].name = Head(path)
        /\ selections[i].selectionSet # <<>>
        /\ Len(path) > 1 => Traverses(Tail(path), selections[i].selectionSet)

NestedPaths == {p \in Paths(req.selections) : Traverses(p, req.selections)}

====
